---- MODULE Spec2Model ----
(***************************************************************************)
(* Model of starcluster/plugins/torque.py: the TorquePlugin that brings    *)
(* up a PBS/Torque controller on the master node, fans the compute-node    *)
(* configuration out over the thread pool, and handles single-node         *)
(* add/remove afterwards.                                                  *)
(*                                                                         *)
(* A Node is represented by its alias.  Every remote call (ssh.execute,    *)
(* apt_command, apt_install) is one step whose outcome (ok or failed) is   *)
(* chosen by the remote side.  Each invocation keeps the list of remote    *)
(* calls it has issued, in order, as records [on, cmd, ok], and the lines  *)
(* it has written to the log, as records [msg, arg, at] where at is the    *)
(* number of remote calls issued before the line was written.              *)
(***************************************************************************)
EXTENDS Integers, Sequences, FiniteSets, TLC

\* ------------------------------------------------------------------ bounds
\* longest raw machine list handed to run
MaxNodes == 2
\* number of on_add_node / on_remove_node invocations after the run
MaxMemberOps == 2
\* number of pool worker threads
PoolSize == 2

\* ------------------------------------------------------- class attributes
master == "master"
WorkerAliases == {"node001", "node002"}
Aliases == {master} \cup WorkerAliases
torque_admin == "root"

torque_master_packages == <<"torque-server", "torque-scheduler", "torque-client">>
torque_client_packages == <<"torque-mom">>

Cmd(name, arg) == [name |-> name, arg |-> arg]

SgeUninstallMasterCmd == Cmd("cd /opt/sge6/; echo y | /opt/sge6/inst_sge -ux all", "")
SgeUninstallWorkerCmd == Cmd("/opt/sge6/inst_sge -ux", "")
AptUpdateCmd == Cmd("apt update", "")
AptInstallCmd(package) == Cmd("apt install", package)
CreateNodeCmd(alias) == Cmd("qmgr -c create node", alias)
DeleteNodeCmd(alias) == Cmd("qmgr -c delete node", alias)

\* faulty variant: the scheduler service is started before the server
MasterConfigCommands_Swapped ==
    << Cmd("service torque-scheduler stop", ""),
       Cmd("service torque-server stop", ""),
       Cmd("echo > /var/spool/torque/server_name", master),
       Cmd("echo y | sh /usr/share/doc/torque-common/torque.setup", torque_admin),
       Cmd("qterm", ""),
       Cmd("service torque-scheduler start", ""),
       Cmd("service torque-server start", "") >>

\* config_commands of _configure_torque_master
MasterConfigCommands ==
    << Cmd("service torque-scheduler stop", ""),
       Cmd("service torque-server stop", ""),
       Cmd("echo > /var/spool/torque/server_name", master),
       Cmd("echo y | sh /usr/share/doc/torque-common/torque.setup", torque_admin),
       Cmd("qterm", ""),
       Cmd("service torque-server start", ""),
       Cmd("service torque-scheduler start", "") >>

\* faulty variant: the service is started before server_name is written
NodeConfigCommands_StartFirst ==
    << Cmd("service torque-mom stop", ""),
       Cmd("sleep 1; service torque-mom start", ""),
       Cmd("echo > /var/spool/torque/server_name", master) >>

\* config_commands of _configure_torque_node
NodeConfigCommands ==
    << Cmd("service torque-mom stop", ""),
       Cmd("echo > /var/spool/torque/server_name", master),
       Cmd("sleep 1; service torque-mom start", "") >>

\* ------------------------------------------------------------------ state
VARIABLES
    session,            \* entry points used: "run" or "member" (add/remove node)
    nodes,              \* raw machine list passed to run (aliases)
    compute_on_master,  \* self.compute_on_master
    rpc,                \* position of run
    err,                \* exception that left run, "" if none
    compute_nodes,      \* local of run
    wait_count,         \* local of run
    mcalls,             \* number of calls of _configure_torque_master
    mc,                 \* frame of _configure_torque_master
    jobs,               \* pool: jobs in submission order
    completed,          \* pool: completed-count
    shutdowns,          \* pool: number of shutdown() calls
    nc,                 \* frames of _configure_torque_node, per thread
    registered,         \* controller's node database (aliases)
    momsvc,             \* torque-mom service state per machine
    serverfile,         \* content of server_name per machine
    memOp,              \* membership call in progress
    memCount,           \* number of membership calls made
    memHist             \* the last two finished membership calls, oldest first

vars == << session, nodes, compute_on_master, rpc, err, compute_nodes, wait_count,
           mcalls, mc, jobs, completed, shutdowns, nc, registered, momsvc,
           serverfile, memOp, memCount, memHist >>

runVars == << rpc, err, compute_nodes, wait_count, mcalls, mc >>
poolVars == << jobs, completed, shutdowns >>
clusterVars == << registered, momsvc, serverfile >>
memVars == << memOp, memCount, memHist >>
inputVars == << session, nodes, compute_on_master >>

\* thread 0 is the caller of on_add_node; thread j >= 1 runs pool job j
MemThread == 0
MaxJobs == MaxNodes + 1
Threads == 0 .. MaxJobs

NoOp == [op |-> "none", alias |-> ""]

\* log.info(msg + arg), written after `at` remote calls of the invocation
Line(msg, arg, at) == [msg |-> msg, arg |-> arg, at |-> at]

IdleFrame == [pc |-> "idle", node |-> "", k |-> 0, cmds |-> << >>, log |-> << >>]
\* entry of _configure_torque_node
StartFrame(alias) ==
    [pc |-> "uninstall", node |-> alias, k |-> 1, cmds |-> << >>,
     log |-> << Line("Configuring PBS/Torque node ", alias, 0) >>]
\* entry of _configure_torque_master
MasterStartFrame ==
    [pc |-> "uninstall", node |-> master, k |-> 1, cmds |-> << >>,
     log |-> << Line("Configuring PBS/Torque controller on ", master, 0) >>]

\* the duplicate-free sequences over S of length at most n (aliases are unique)
SeqsNoDup(S, n) ==
    { s \in UNION { [1 .. m -> S] : m \in 0 .. n } :
        \A i, j \in 1 .. Len(s) : i # j => s[i] # s[j] }

\* a cluster on which the workers in reg were configured by an earlier run
ConfiguredMom(reg) == [a \in Aliases |-> IF a \in reg THEN "running" ELSE "unknown"]
ConfiguredFile(reg) ==
    [a \in Aliases |-> IF a \in reg \cup {master} THEN master ELSE "none"]

\* run starts on a fresh cluster; add/remove calls start on a configured one
Init ==
    /\ \/ /\ session = "run"
          /\ nodes \in SeqsNoDup(Aliases, MaxNodes)
          /\ compute_on_master \in BOOLEAN
          /\ rpc = "start"
          /\ registered = {}
          /\ momsvc = [a \in Aliases |-> "unknown"]
          /\ serverfile = [a \in Aliases |-> "none"]
       \/ /\ session = "member"
          /\ nodes = << >>
          /\ compute_on_master = FALSE
          /\ rpc = "none"
          /\ registered \in SUBSET WorkerAliases
          /\ momsvc = ConfiguredMom(registered)
          /\ serverfile = ConfiguredFile(registered)
    /\ err = ""
    /\ compute_nodes = << >>
    /\ wait_count = 0
    /\ mcalls = 0
    /\ mc = IdleFrame
    /\ jobs = << >>
    /\ completed = 0
    /\ shutdowns = 0
    /\ nc = [t \in Threads |-> IdleFrame]
    /\ memOp = NoOp
    /\ memCount = 0
    /\ memHist = << >>

\* ------------------------------------------------------- remote executor
Call(on, cmd, ok) == [on |-> on, cmd |-> cmd, ok |-> ok]

Cluster == [registered |-> registered, momsvc |-> momsvc, serverfile |-> serverfile]

\* what one remote call changes on the cluster: a failed command changes nothing
ApplyCall(st, c) ==
    IF ~c.ok THEN st
    ELSE IF c.cmd.name = "qmgr -c create node"
      THEN [st EXCEPT !.registered = @ \cup {c.cmd.arg}]
    ELSE IF c.cmd.name = "qmgr -c delete node"
      THEN [st EXCEPT !.registered = @ \ {c.cmd.arg}]
    ELSE IF c.cmd.name = "service torque-mom stop"
      THEN [st EXCEPT !.momsvc[c.on] = "stopped"]
    ELSE IF c.cmd.name = "sleep 1; service torque-mom start"
      THEN [st EXCEPT !.momsvc[c.on] = "running"]
    ELSE IF c.cmd.name = "echo > /var/spool/torque/server_name"
      THEN [st EXCEPT !.serverfile[c.on] = c.cmd.arg]
    ELSE st

RECURSIVE ApplyCalls(_, _)
ApplyCalls(st, cs) ==
    IF cs = << >> THEN st ELSE ApplyCalls(ApplyCall(st, Head(cs)), Tail(cs))

\* the cluster after the remote calls cs
RemoteEffects(cs) ==
    LET st == ApplyCalls(Cluster, cs)
    IN  /\ registered' = st.registered
        /\ momsvc' = st.momsvc
        /\ serverfile' = st.serverfile

RemoteEffect(on, cmd, ok) == RemoteEffects(<< Call(on, cmd, ok) >>)

\* ssh.execute: a failed command raises unless the caller passed
\* ignore_exit_status=True
Raises(ok, ignore_exit_status) == ~ok /\ ~ignore_exit_status

\* the log.info lines written right before a remote call
MasterLogBefore(cmd, at) ==
    IF cmd = SgeUninstallMasterCmd THEN << Line("Removing SGE from ", master, at) >>
    ELSE IF cmd.name = "apt install"
      THEN << Line("master: installing package ", cmd.arg, at) >>
    ELSE IF cmd.name = "apt update" THEN << >>
    ELSE << Line("master: executing command: ", cmd.name, at) >>

NodeLogBefore(node, cmd, at) ==
    IF cmd = SgeUninstallWorkerCmd THEN << Line("Removing SGE from ", node, at) >>
    ELSE IF cmd.name = "apt install"
      THEN << Line("node: installing package ", cmd.arg, at) >>
    ELSE IF cmd.name = "apt update" THEN << >>
    ELSE IF cmd.name = "qmgr -c create node"
      THEN << Line("master: executing command: qmgr -c create node ", cmd.arg, at) >>
    ELSE << Line("node: executing command: ", cmd.name, at) >>

\* ------------------------------------------- _configure_torque_master
\* faulty variant: a failed call is recorded but the sequence goes on
MasterStep_Swallows(cmd, ok, ignore_exit_status, pcnext, knext) ==
    /\ mc' = [mc EXCEPT !.cmds = Append(@, Call(master, cmd, ok)),
                        !.log = @ \o MasterLogBefore(cmd, Len(mc.cmds)),
                        !.pc = pcnext,
                        !.k = knext]
    /\ RemoteEffect(master, cmd, ok)
    /\ UNCHANGED << rpc, err, compute_nodes, wait_count, mcalls >>
    /\ UNCHANGED << inputVars, poolVars, nc, memVars >>

\* one remote call of _configure_torque_master; an exception leaves run
MasterStep(cmd, ok, ignore_exit_status, pcnext, knext) ==
    /\ mc' = [mc EXCEPT !.cmds = Append(@, Call(master, cmd, ok)),
                        !.log = @ \o MasterLogBefore(cmd, Len(mc.cmds)),
                        !.pc = IF Raises(ok, ignore_exit_status) THEN "raised" ELSE pcnext,
                        !.k = IF Raises(ok, ignore_exit_status) THEN @ ELSE knext]
    /\ rpc' = IF Raises(ok, ignore_exit_status) THEN "raised" ELSE rpc
    /\ err' = IF Raises(ok, ignore_exit_status) THEN "RemoteCommandFailed" ELSE err
    /\ RemoteEffect(master, cmd, ok)
    /\ UNCHANGED << compute_nodes, wait_count, mcalls >>
    /\ UNCHANGED << inputVars, poolVars, nc, memVars >>

RunCallMaster ==
    /\ rpc = "start"
    /\ rpc' = "master"
    /\ mcalls' = mcalls + 1
    /\ mc' = MasterStartFrame
    /\ UNCHANGED << err, compute_nodes, wait_count >>
    /\ UNCHANGED << inputVars, poolVars, nc, clusterVars, memVars >>

UninstallSgeMaster ==
    /\ rpc = "master" /\ mc.pc = "uninstall"
    /\ \E ok \in BOOLEAN :
         MasterStep(SgeUninstallMasterCmd, ok, TRUE, "update", 1)

MasterAptUpdate ==
    /\ rpc = "master" /\ mc.pc = "update"
    /\ \E ok \in BOOLEAN :
         MasterStep(AptUpdateCmd, ok, FALSE, "install", 1)

MasterAptInstall ==
    /\ rpc = "master" /\ mc.pc = "install"
    /\ \E ok \in BOOLEAN :
         IF mc.k < Len(torque_master_packages)
         THEN MasterStep(AptInstallCmd(torque_master_packages[mc.k]), ok, FALSE,
                         "install", mc.k + 1)
         ELSE MasterStep(AptInstallCmd(torque_master_packages[mc.k]), ok, FALSE,
                         "config", 1)

\* faulty variant: the script commands are executed without raise_on_failure
MasterConfigCommand_NoRaise ==
    /\ rpc = "master" /\ mc.pc = "config"
    /\ \E ok \in BOOLEAN :
         IF mc.k < Len(MasterConfigCommands)
         THEN MasterStep(MasterConfigCommands[mc.k], ok, TRUE, "config", mc.k + 1)
         ELSE MasterStep(MasterConfigCommands[mc.k], ok, TRUE, "returned", mc.k)

MasterConfigCommand ==
    /\ rpc = "master" /\ mc.pc = "config"
    /\ \E ok \in BOOLEAN :
         IF mc.k < Len(MasterConfigCommands)
         THEN MasterStep(MasterConfigCommands[mc.k], ok, FALSE, "config", mc.k + 1)
         ELSE MasterStep(MasterConfigCommands[mc.k], ok, FALSE, "returned", mc.k)

\* --------------------------------------------------------------- run
\* compute_nodes = filter(lambda n: n.alias != master.alias, nodes)
FilterNodes(ns) == SelectSeq(ns, LAMBDA n : n # master)

\* iter(node): a Node has an alias and an ssh handle and defines no iteration
IterNode(alias) == [raises |-> "TypeError", items |-> << >>]

\* faulty variant: the fan-out does not wait for _configure_torque_master
RunFilter_NoMaster ==
    /\ rpc \in {"start", "master"}
    /\ rpc = "master" => mc.pc = "returned"
    /\ compute_nodes' = FilterNodes(nodes)
    /\ wait_count' = 0
    /\ rpc' = IF compute_on_master THEN "extend" ELSE "loop"
    /\ UNCHANGED << err, mcalls, mc >>
    /\ UNCHANGED << inputVars, poolVars, nc, clusterVars, memVars >>

\* faulty variant: the count handed to wait starts at one
RunFilter_CountFromOne ==
    /\ rpc = "master" /\ mc.pc = "returned"
    /\ compute_nodes' = FilterNodes(nodes)
    /\ wait_count' = 1
    /\ rpc' = IF compute_on_master THEN "extend" ELSE "loop"
    /\ UNCHANGED << err, mcalls, mc >>
    /\ UNCHANGED << inputVars, poolVars, nc, clusterVars, memVars >>

RunFilter ==
    /\ rpc = "master" /\ mc.pc = "returned"
    /\ compute_nodes' = FilterNodes(nodes)
    /\ wait_count' = 0
    /\ rpc' = IF compute_on_master THEN "extend" ELSE "loop"
    /\ UNCHANGED << err, mcalls, mc >>
    /\ UNCHANGED << inputVars, poolVars, nc, clusterVars, memVars >>

\* compute_nodes += master: list.__iadd__ extends the list by iter(master)
RunExtend ==
    /\ rpc = "extend"
    /\ LET it == IterNode(master)
       IN  IF it.raises # ""
           THEN /\ rpc' = "raised"
                /\ err' = it.raises
                /\ UNCHANGED compute_nodes
           ELSE /\ rpc' = "loop"
                /\ compute_nodes' = compute_nodes \o it.items
                /\ UNCHANGED err
    /\ UNCHANGED << wait_count, mcalls, mc >>
    /\ UNCHANGED << inputVars, poolVars, nc, clusterVars, memVars >>

\* pool.simple_job(method, args): enqueue the job
SimpleJob(node) == jobs' = Append(jobs, [node |-> node, st |-> "queued"])

\* faulty variant: every job is submitted with the first node of the list
RunSubmit_FirstNode ==
    /\ rpc = "loop"
    /\ wait_count < Len(compute_nodes)
    /\ wait_count' = wait_count + 1
    /\ SimpleJob(compute_nodes[1])
    /\ UNCHANGED << rpc, err, compute_nodes, mcalls, mc >>
    /\ UNCHANGED << inputVars, completed, shutdowns, nc, clusterVars, memVars >>

\* one iteration of the for loop of run
RunSubmit ==
    /\ rpc = "loop"
    /\ wait_count < Len(compute_nodes)
    /\ wait_count' = wait_count + 1
    /\ SimpleJob(compute_nodes[wait_count + 1])
    /\ UNCHANGED << rpc, err, compute_nodes, mcalls, mc >>
    /\ UNCHANGED << inputVars, completed, shutdowns, nc, clusterVars, memVars >>

\* pool.wait(numtasks): returns once numtasks jobs have completed
WaitReturns(numtasks) == completed >= numtasks

\* faulty variant: wait is asked for one completion too few
RunWait_OneShort ==
    /\ rpc = "loop"
    /\ wait_count = Len(compute_nodes)
    /\ WaitReturns(wait_count - 1)
    /\ rpc' = "shutdown"
    /\ UNCHANGED << err, compute_nodes, wait_count, mcalls, mc >>
    /\ UNCHANGED << inputVars, poolVars, nc, clusterVars, memVars >>

RunWait ==
    /\ rpc = "loop"
    /\ wait_count = Len(compute_nodes)
    /\ WaitReturns(wait_count)
    /\ rpc' = "shutdown"
    /\ UNCHANGED << err, compute_nodes, wait_count, mcalls, mc >>
    /\ UNCHANGED << inputVars, poolVars, nc, clusterVars, memVars >>

\* faulty variant: run reports success without pool.shutdown()
RunShutdown_Skipped ==
    /\ rpc = "shutdown"
    /\ mc' = [mc EXCEPT !.log = Append(@,
                 Line("Your PBS/Torque cluster is now configured.", "", Len(mc.cmds)))]
    /\ rpc' = "done"
    /\ UNCHANGED << err, compute_nodes, wait_count, mcalls >>
    /\ UNCHANGED << inputVars, poolVars, nc, clusterVars, memVars >>

\* pool.shutdown() and the closing log.info
RunShutdown ==
    /\ rpc = "shutdown"
    /\ shutdowns' = shutdowns + 1
    /\ mc' = [mc EXCEPT !.log = Append(@,
                 Line("Your PBS/Torque cluster is now configured.", "", Len(mc.cmds)))]
    /\ rpc' = "done"
    /\ UNCHANGED << err, compute_nodes, wait_count, mcalls >>
    /\ UNCHANGED << inputVars, jobs, completed, nc, clusterVars, memVars >>

\* ---------------------------------------------------------- task pool
Running == { j \in 1 .. Len(jobs) : jobs[j].st = "running" }

\* a free worker thread takes the oldest queued job and calls its method
PoolWorkerTake(j) ==
    /\ j \in 1 .. Len(jobs)
    /\ jobs[j].st = "queued"
    /\ \A i \in 1 .. (j - 1) : jobs[i].st # "queued"
    /\ Cardinality(Running) < PoolSize
    /\ jobs' = [jobs EXCEPT ![j].st = "running"]
    /\ nc' = [nc EXCEPT ![j] = StartFrame(jobs[j].node)]
    /\ UNCHANGED << inputVars, runVars, completed, shutdowns, clusterVars, memVars >>

\* the job's method returned or raised: the job counts as completed
PoolJobComplete(j) ==
    /\ j \in 1 .. Len(jobs)
    /\ jobs[j].st = "running"
    /\ nc[j].pc \in {"returned", "raised"}
    /\ jobs' = [jobs EXCEPT ![j].st = "done"]
    /\ completed' = completed + 1
    /\ UNCHANGED << inputVars, runVars, shutdowns, nc, clusterVars, memVars >>

\* --------------------------------------------- _configure_torque_node
Active(t) == IF t = MemThread THEN memOp.op = "add"
             ELSE t <= Len(jobs) /\ jobs[t].st = "running"

\* one remote call of _configure_torque_node in thread t
\* faulty variant: a failing command is issued a second time
NodeStep_Retries(t, on, cmd, ok, ignore_exit_status, pcnext, knext) ==
    /\ nc' = [nc EXCEPT ![t].cmds = IF ok THEN Append(@, Call(on, cmd, ok))
                                    ELSE @ \o << Call(on, cmd, ok), Call(on, cmd, ok) >>,
                        ![t].log = @ \o NodeLogBefore(nc[t].node, cmd, Len(nc[t].cmds)),
                        ![t].pc = IF Raises(ok, ignore_exit_status) THEN "raised" ELSE pcnext,
                        ![t].k = IF Raises(ok, ignore_exit_status) THEN @ ELSE knext]
    /\ RemoteEffect(on, cmd, ok)
    /\ UNCHANGED << inputVars, runVars, poolVars, memVars >>

NodeStep(t, on, cmd, ok, ignore_exit_status, pcnext, knext) ==
    /\ nc' = [nc EXCEPT ![t].cmds = Append(@, Call(on, cmd, ok)),
                        ![t].log = @ \o NodeLogBefore(nc[t].node, cmd, Len(nc[t].cmds)),
                        ![t].pc = IF Raises(ok, ignore_exit_status) THEN "raised" ELSE pcnext,
                        ![t].k = IF Raises(ok, ignore_exit_status) THEN @ ELSE knext]
    /\ RemoteEffect(on, cmd, ok)
    /\ UNCHANGED << inputVars, runVars, poolVars, memVars >>

\* faulty variant: the removal is executed without ignore_exit_status
UninstallSgeWorker_Raises(t) ==
    /\ Active(t) /\ nc[t].pc = "uninstall"
    /\ \E isdir \in BOOLEAN, ok \in BOOLEAN :
         IF isdir
         THEN NodeStep(t, nc[t].node, SgeUninstallWorkerCmd, ok, FALSE, "update", 1)
         ELSE /\ ok
              /\ nc' = [nc EXCEPT ![t].pc = "update",
                                  ![t].log = @ \o
                                    << Line("Removing SGE from ", nc[t].node, 0),
                                       Line("SGE already uninstalled.", "", 0) >>]
              /\ UNCHANGED << inputVars, runVars, poolVars, clusterVars, memVars >>

UninstallSgeWorker(t) ==
    /\ Active(t) /\ nc[t].pc = "uninstall"
    /\ \E isdir \in BOOLEAN, ok \in BOOLEAN :
         IF isdir
         THEN NodeStep(t, nc[t].node, SgeUninstallWorkerCmd, ok, TRUE, "update", 1)
         ELSE /\ ok
              /\ nc' = [nc EXCEPT ![t].pc = "update",
                                  ![t].log = @ \o
                                    << Line("Removing SGE from ", nc[t].node, 0),
                                       Line("SGE already uninstalled.", "", 0) >>]
              /\ UNCHANGED << inputVars, runVars, poolVars, clusterVars, memVars >>

NodeAptUpdate(t) ==
    /\ Active(t) /\ nc[t].pc = "update"
    /\ \E ok \in BOOLEAN :
         NodeStep(t, nc[t].node, AptUpdateCmd, ok, FALSE, "install", 1)

NodeAptInstall(t) ==
    /\ Active(t) /\ nc[t].pc = "install"
    /\ \E ok \in BOOLEAN :
         IF nc[t].k < Len(torque_client_packages)
         THEN NodeStep(t, nc[t].node, AptInstallCmd(torque_client_packages[nc[t].k]),
                       ok, FALSE, "install", nc[t].k + 1)
         ELSE NodeStep(t, nc[t].node, AptInstallCmd(torque_client_packages[nc[t].k]),
                       ok, FALSE, "register", 1)

\* faulty variant: the registration is executed on the node, not on the master
NodeRegister_OnNode(t) ==
    /\ Active(t) /\ nc[t].pc = "register"
    /\ \E ok \in BOOLEAN :
         NodeStep(t, nc[t].node, CreateNodeCmd(nc[t].node), ok, FALSE, "config", 1)

\* faulty variant: a failed registration in a pool job unwinds into run
NodeRegister_Escapes(t) ==
    /\ Active(t) /\ nc[t].pc = "register"
    /\ \E ok \in BOOLEAN :
         /\ nc' = [nc EXCEPT ![t].cmds = Append(@, Call(master, CreateNodeCmd(nc[t].node), ok)),
                             ![t].log = @ \o NodeLogBefore(nc[t].node,
                                            CreateNodeCmd(nc[t].node), Len(nc[t].cmds)),
                             ![t].pc = IF ok THEN "config" ELSE "raised",
                             ![t].k = 1]
         /\ RemoteEffect(master, CreateNodeCmd(nc[t].node), ok)
         /\ rpc' = IF ~ok /\ t # MemThread THEN "raised" ELSE rpc
         /\ err' = IF ~ok /\ t # MemThread THEN "RemoteCommandFailed" ELSE err
         /\ UNCHANGED << compute_nodes, wait_count, mcalls, mc >>
         /\ UNCHANGED << inputVars, poolVars, memVars >>

\* master.ssh.execute("qmgr -c 'create node <alias>'")
NodeRegister(t) ==
    /\ Active(t) /\ nc[t].pc = "register"
    /\ \E ok \in BOOLEAN :
         NodeStep(t, master, CreateNodeCmd(nc[t].node), ok, FALSE, "config", 1)

\* faulty variant: the node's commands go through master.ssh
NodeConfigCommand_OnMaster(t) ==
    /\ Active(t) /\ nc[t].pc = "config"
    /\ \E ok \in BOOLEAN :
         IF nc[t].k < Len(NodeConfigCommands)
         THEN NodeStep(t, master, NodeConfigCommands[nc[t].k], ok, FALSE,
                       "config", nc[t].k + 1)
         ELSE NodeStep(t, master, NodeConfigCommands[nc[t].k], ok, FALSE,
                       "returned", nc[t].k)

NodeConfigCommand(t) ==
    /\ Active(t) /\ nc[t].pc = "config"
    /\ \E ok \in BOOLEAN :
         IF nc[t].k < Len(NodeConfigCommands)
         THEN NodeStep(t, nc[t].node, NodeConfigCommands[nc[t].k], ok, FALSE,
                       "config", nc[t].k + 1)
         ELSE NodeStep(t, nc[t].node, NodeConfigCommands[nc[t].k], ok, FALSE,
                       "returned", nc[t].k)

\* ------------------------------------------------- membership changes
\* keep the last two finished calls
Keep(h) == IF Len(h) > 2 THEN Tail(h) ELSE h

\* on_add_node: call _configure_torque_node(master, node) in the caller
OnAddNode(alias) ==
    /\ session = "member"
    /\ memOp.op = "none"
    /\ memCount < MaxMemberOps
    /\ memCount' = memCount + 1
    /\ memOp' = [op |-> "add", alias |-> alias]
    /\ nc' = [nc EXCEPT ![MemThread] = StartFrame(alias)]
    /\ UNCHANGED << inputVars, runVars, poolVars, clusterVars, memHist >>

\* on_add_node returns, or the exception of _configure_torque_node leaves it
OnAddNodeReturn ==
    /\ memOp.op = "add"
    /\ nc[MemThread].pc \in {"returned", "raised"}
    /\ memHist' = Keep(Append(memHist, [op |-> "add", alias |-> memOp.alias,
                                        status |-> nc[MemThread].pc,
                                        cmds |-> nc[MemThread].cmds,
                                        log |-> nc[MemThread].log]))
    /\ memOp' = NoOp
    /\ nc' = [nc EXCEPT ![MemThread] = IdleFrame]
    /\ UNCHANGED << inputVars, runVars, poolVars, clusterVars, memCount >>

\* faulty variant: the remove path also stops the service on the worker
DeconfigureTorqueNode_StopsMom(alias, ok) ==
    << Call(master, DeleteNodeCmd(alias), ok),
       Call(alias, Cmd("service torque-mom stop", ""), ok) >>

\* _deconfigure_torque_node: the line it logs
DeconfigureLog(alias) ==
    << Line("master: executing command: qmgr -c delete node ", alias, 0) >>

\* _deconfigure_torque_node: the remote calls it issues
DeconfigureTorqueNode(alias, ok) == << Call(master, DeleteNodeCmd(alias), ok) >>

\* on_remove_node: call _deconfigure_torque_node(master, node)
OnRemoveNode(alias) ==
    /\ session = "member"
    /\ memOp.op = "none"
    /\ memCount < MaxMemberOps
    /\ memCount' = memCount + 1
    /\ \E ok \in BOOLEAN :
         LET cs == DeconfigureTorqueNode(alias, ok)
         IN  /\ memHist' = Keep(Append(memHist,
                                 [op |-> "remove", alias |-> alias,
                                  status |-> IF ok THEN "returned" ELSE "raised",
                                  cmds |-> cs,
                                  log |-> DeconfigureLog(alias)]))
             /\ RemoteEffects(cs)
    /\ UNCHANGED << inputVars, runVars, poolVars, nc, memOp >>

\* ------------------------------------------------------ specification
Next ==
    \/ RunCallMaster
    \/ UninstallSgeMaster
    \/ MasterAptUpdate
    \/ MasterAptInstall
    \/ MasterConfigCommand
    \/ RunFilter
    \/ RunExtend
    \/ RunSubmit
    \/ RunWait
    \/ RunShutdown
    \/ \E j \in 1 .. MaxJobs : PoolWorkerTake(j)
    \/ \E j \in 1 .. MaxJobs : PoolJobComplete(j)
    \/ \E t \in Threads : UninstallSgeWorker(t)
    \/ \E t \in Threads : NodeAptUpdate(t)
    \/ \E t \in Threads : NodeAptInstall(t)
    \/ \E t \in Threads : NodeRegister(t)
    \/ \E t \in Threads : NodeConfigCommand(t)
    \/ \E a \in WorkerAliases : OnAddNode(a)
    \/ OnAddNodeReturn
    \/ \E a \in WorkerAliases : OnRemoveNode(a)

Spec == Init /\ [][Next]_vars

\* the thread of run, and the pool thread that serves job j
RunThread ==
    \/ RunCallMaster \/ UninstallSgeMaster \/ MasterAptUpdate \/ MasterAptInstall
    \/ MasterConfigCommand \/ RunFilter \/ RunExtend \/ RunSubmit \/ RunWait
    \/ RunShutdown

JobThread(j) ==
    \/ PoolWorkerTake(j) \/ UninstallSgeWorker(j) \/ NodeAptUpdate(j)
    \/ NodeAptInstall(j) \/ NodeRegister(j) \/ NodeConfigCommand(j)
    \/ PoolJobComplete(j)

\* one bulk run on its own: every thread keeps running and every remote
\* command returns
RunNext == RunThread \/ \E j \in 1 .. MaxJobs : JobThread(j)

RunInit == Init /\ session = "run"

FairSpec ==
    /\ RunInit
    /\ [][RunNext]_vars
    /\ WF_vars(RunThread)
    /\ \A j \in 1 .. MaxJobs : WF_vars(JobThread(j))

\* ------------------------------------------------------------ claims
JobIds == 1 .. MaxJobs
AllOk(cs) == \A i \in 1 .. Len(cs) : cs[i].ok
OnMaster(cs) == SelectSeq(cs, LAMBDA c : c.on = master)
LastCall(cs) == cs[Len(cs)]
WorkerStarted == jobs # << >> \/ \E j \in JobIds : nc[j] # IdleFrame

\* C1: run calls the controller configuration exactly once, and all of its
\* commands (removal, index refresh, three installs, seven script commands)
\* have completed before any worker job is submitted or issues a command.
C1_ControllerOnceBeforeWorkers ==
    session = "run" =>
      /\ mcalls <= 1
      /\ WorkerStarted =>
           /\ mcalls = 1
           /\ mc.pc = "returned"
           /\ Len(mc.cmds) = 12
           /\ \A i \in 2 .. 12 : mc.cmds[i].ok
      /\ rpc = "done" => mcalls = 1

C1_Witness ==
    /\ session = "run"
    /\ mcalls = 1
    /\ Len(jobs) = 2
    /\ \E j \in JobIds : Len(nc[j].cmds) >= 1

\* a controller step other than the tolerated removal has failed
ControllerStepFailed == \E i \in 2 .. Len(mc.cmds) : ~mc.cmds[i].ok

\* C2: once a controller step (index refresh, a package install, a script
\* command) has failed, run has raised to its caller, no job is ever
\* submitted and no worker-side or registration command is ever issued.
C2_ControllerFailureIsFatal ==
    (session = "run" /\ ControllerStepFailed) =>
      /\ rpc = "raised"
      /\ err = "RemoteCommandFailed"
      /\ jobs = << >>
      /\ wait_count = 0
      /\ \A t \in Threads : nc[t].cmds = << >>
      /\ registered = {}
      /\ \A a \in WorkerAliases : momsvc[a] = "unknown" /\ serverfile[a] = "none"

C2_Witness ==
    /\ session = "run"
    /\ Len(nodes) = 2
    /\ Len(mc.cmds) = 10
    /\ mc.cmds[10].cmd.name = "qterm"
    /\ ~mc.cmds[10].ok
    /\ rpc = "raised"

FailedAtRegistration(j) ==
    /\ nc[j].pc = "raised"
    /\ LastCall(nc[j].cmds).cmd.name = "qmgr -c create node"
AllJobsCompleted == \A i \in 1 .. Len(jobs) : jobs[i].st = "done"

\* C3: when a worker job has failed at its registration command, run does
\* not raise; every job still completes and run reaches Done.
C3_RegistrationFailureIsJobScoped ==
    \A j \in JobIds :
      /\ [](FailedAtRegistration(j) => rpc # "raised")
      /\ FailedAtRegistration(j) ~> (rpc = "done" /\ AllJobsCompleted)

C3_Witness ==
    /\ rpc = "done"
    /\ \E j, i \in JobIds :
         /\ FailedAtRegistration(j)
         /\ nc[i].pc = "returned"
         /\ Len(nc[i].cmds) >= 6
         /\ AllOk(nc[i].cmds)

\* C4: run is past wait (shutting down or Done) only when exactly
\* wait_count = number of submitted jobs completions are recorded and no job
\* is still queued or running; completed never exceeds submitted; and once
\* all submitted jobs have completed, failed or not, wait can return.
C4_DoneOnlyAfterWait ==
    /\ completed <= Len(jobs)
    /\ completed = Cardinality({ i \in 1 .. Len(jobs) : jobs[i].st = "done" })
    /\ rpc \in {"shutdown", "done"} =>
         /\ wait_count = Len(jobs)
         /\ Len(jobs) = Len(compute_nodes)
         /\ completed = wait_count
         /\ AllJobsCompleted
         /\ \A j \in 1 .. Len(jobs) : nc[j].pc \in {"returned", "raised"}
    /\ (rpc = "loop" /\ wait_count = Len(compute_nodes) /\ AllJobsCompleted)
         => ENABLED RunWait

C4_Witness ==
    /\ rpc = "done"
    /\ completed = 2
    /\ \E j, i \in JobIds :
         /\ nc[j].pc = "raised"
         /\ LastCall(nc[j].cmds).cmd.name = "apt update"
         /\ nc[i].pc = "returned"

JobsFor(a) == Cardinality({ i \in 1 .. Len(jobs) : jobs[i].node = a })
\* run is over and the controller configuration succeeded
RunEndedAfterController ==
    session = "run" /\ rpc \in {"done", "raised"} /\ mc.pc = "returned"

\* C5: with compute_on_master set, exactly one worker job is submitted for
\* the controller, whether or not it is in the raw machine list.
C5_ControllerOnceInWorkerSet ==
    (RunEndedAfterController /\ compute_on_master) => JobsFor(master) = 1

Range(q) == { q[i] : i \in 1 .. Len(q) }
ExpectedWorkers ==
    (Range(nodes) \ {master}) \cup (IF compute_on_master THEN {master} ELSE {})

\* C6: the machines that get a worker job are the non-controller machines,
\* plus the controller iff compute_on_master; each gets exactly one job.
C6_WorkerSetExact ==
    RunEndedAfterController =>
      \A a \in Aliases : JobsFor(a) = IF a \in ExpectedWorkers THEN 1 ELSE 0

\* the pairs: an add call and the remove call made right after it, same alias
AddThenRemove ==
    { i \in 1 .. (Len(memHist) - 1) :
        /\ memHist[i].op = "add"
        /\ memHist[i + 1].op = "remove"
        /\ memHist[i].alias = memHist[i + 1].alias }
ControllerCalls(i) == OnMaster(memHist[i].cmds \o memHist[i + 1].cmds)
CallCmds(cs) == [ i \in 1 .. Len(cs) |-> cs[i].cmd ]
\* no remote call of the add call failed before its registration step
ReachedRegistration(h) ==
    \A i \in 1 .. Len(h.cmds) :
      h.cmds[i].cmd.name \in {"apt update", "apt install"} => h.cmds[i].ok

\* C7 as stated: add then remove of one alias sends the controller exactly
\* one create node and one delete node, in that order.
C7_AddRemoveExactlyOneEach ==
    \A i \in AddThenRemove :
      CallCmds(ControllerCalls(i)) =
        << Cmd("qmgr -c create node", memHist[i].alias),
           Cmd("qmgr -c delete node", memHist[i].alias) >>

\* C7 amended: the same, provided the add call's index refresh and package
\* install succeeded; otherwise no create node is sent and the remove call
\* still sends exactly one delete node.
C7_AddRemoveAmended ==
    \A i \in AddThenRemove :
      CallCmds(ControllerCalls(i)) =
        IF ReachedRegistration(memHist[i])
        THEN << Cmd("qmgr -c create node", memHist[i].alias),
                Cmd("qmgr -c delete node", memHist[i].alias) >>
        ELSE << Cmd("qmgr -c delete node", memHist[i].alias) >>

C7_Witness ==
    \E i \in AddThenRemove :
      /\ memHist[i].status = "returned"
      /\ memHist[i + 1].status = "returned"
      /\ Len(ControllerCalls(i)) = 2

\* the command script of the controller, as the claim lists it
ExpectedControllerScript ==
    << [name |-> "service torque-scheduler stop", arg |-> ""],
       [name |-> "service torque-server stop", arg |-> ""],
       [name |-> "echo > /var/spool/torque/server_name", arg |-> "master"],
       [name |-> "echo y | sh /usr/share/doc/torque-common/torque.setup", arg |-> "root"],
       [name |-> "qterm", arg |-> ""],
       [name |-> "service torque-server start", arg |-> ""],
       [name |-> "service torque-scheduler start", arg |-> ""] >>
IsPrefix(p, q) == Len(p) <= Len(q) /\ \A i \in 1 .. Len(p) : p[i] = q[i]
\* what the controller configuration has issued after the package installs
ScriptIssued == CallCmds(SubSeq(mc.cmds, 6, Len(mc.cmds)))

\* C8: the commands issued after the package installs are, in order, the
\* seven script commands (always a prefix of them, all seven when every
\* command succeeds), all on the controller, and no other thread issues a
\* command while the controller is being configured.
C8_ControllerScriptOrder ==
    session = "run" =>
      /\ IsPrefix(ScriptIssued, ExpectedControllerScript)
      /\ \A i \in 1 .. Len(mc.cmds) : mc.cmds[i].on = master
      /\ (mc.pc # "returned") => \A t \in Threads : nc[t].cmds = << >>
      /\ (mc.pc = "returned" /\ AllOk(mc.cmds)) =>
           ScriptIssued = ExpectedControllerScript

C8_Witness ==
    /\ session = "run"
    /\ mc.pc = "returned"
    /\ AllOk(mc.cmds)
    /\ Len(ScriptIssued) = 7

IsRemoval(c) ==
    c.cmd.name \in {"cd /opt/sge6/; echo y | /opt/sge6/inst_sge -ux all",
                    "/opt/sge6/inst_sge -ux"}
\* frame f went on to the index refresh after a failed removal
ToleratedIn(f) ==
    (Len(f.cmds) >= 1 /\ IsRemoval(f.cmds[1]) /\ ~f.cmds[1].ok) =>
      /\ Len(f.cmds) = 1 => f.pc = "update"
      /\ Len(f.cmds) >= 2 => f.cmds[2].cmd.name = "apt update"

\* C9: a failed prior-scheduler removal, on the controller or on a worker,
\* raises nothing: the sequence goes on with the package index refresh.
C9_RemovalFailureTolerated ==
    /\ ToleratedIn(mc)
    /\ (mc.cmds # << >> /\ Len(mc.cmds) = 1) => rpc = "master"
    /\ \A t \in Threads : ToleratedIn(nc[t])

C9_Witness ==
    /\ rpc = "done"
    /\ ~mc.cmds[1].ok
    /\ \E j \in JobIds :
         /\ nc[j].pc = "returned"
         /\ IsRemoval(nc[j].cmds[1])
         /\ ~nc[j].cmds[1].ok

\* the step is a call of on_remove_node
RemoveCalled == memCount' = memCount + 1 /\ memOp' = memOp
LastRemoved == memHist'[Len(memHist')].alias

\* C10: a remove call issues one command, the delete node of its alias on
\* the controller; it changes no worker's service state or server_name
\* file and no other alias's registration.
C10_RemoveIsOneControllerCommand ==
    /\ [](\A i \in 1 .. Len(memHist) :
            memHist[i].op = "remove" =>
              /\ Len(memHist[i].cmds) = 1
              /\ memHist[i].cmds[1].on = master
              /\ memHist[i].cmds[1].cmd =
                   [name |-> "qmgr -c delete node", arg |-> memHist[i].alias])
    /\ [][RemoveCalled =>
            /\ momsvc' = momsvc
            /\ serverfile' = serverfile
            /\ nc' = nc
            /\ registered' \in {registered, registered \ {LastRemoved}}]_vars

C10_Witness ==
    /\ Len(memHist) >= 1
    /\ LET h == memHist[Len(memHist)]
       IN  /\ h.op = "remove"
           /\ h.status = "returned"
           /\ h.alias \notin registered
           /\ momsvc[h.alias] = "running"
           /\ serverfile[h.alias] = master
           /\ registered # {}

IsStart(c) ==
    c.cmd.name \in {"service torque-server start", "service torque-scheduler start"}

\* C11: a failed command of the controller script is the last remote call
\* of the controller configuration: run has raised, no later script command
\* and no service start follows, and no other thread issues a command.
C11_ScriptFailureAbortsRest ==
    session = "run" =>
      \A i \in 6 .. Len(mc.cmds) :
        ~mc.cmds[i].ok =>
          /\ i = Len(mc.cmds)
          /\ mc.pc = "raised"
          /\ rpc = "raised"
          /\ err = "RemoteCommandFailed"
          /\ i <= 10 => \A n \in 1 .. Len(mc.cmds) : ~IsStart(mc.cmds[n])
          /\ \A t \in Threads : nc[t].cmds = << >>
          /\ jobs = << >>

C11_Witness ==
    /\ session = "run"
    /\ Len(mc.cmds) = 8
    /\ mc.cmds[8].cmd.name = "echo > /var/spool/torque/server_name"
    /\ ~mc.cmds[8].ok
    /\ rpc = "raised"

\* the remote calls of one worker configuration, as the claim orders them
\* (the removal is issued only when /opt/sge6 exists on the worker)
ExpectedWorkerCalls(a) ==
    << [on |-> a, cmd |-> [name |-> "apt update", arg |-> ""]],
       [on |-> a, cmd |-> [name |-> "apt install", arg |-> "torque-mom"]],
       [on |-> "master", cmd |-> [name |-> "qmgr -c create node", arg |-> a]],
       [on |-> a, cmd |-> [name |-> "service torque-mom stop", arg |-> ""]],
       [on |-> a, cmd |-> [name |-> "echo > /var/spool/torque/server_name",
                           arg |-> "master"]],
       [on |-> a, cmd |-> [name |-> "sleep 1; service torque-mom start", arg |-> ""]] >>
Targets(cs) == [ i \in 1 .. Len(cs) |-> [on |-> cs[i].on, cmd |-> cs[i].cmd] ]
AfterRemoval(cs) == IF cs # << >> /\ IsRemoval(cs[1]) THEN Tail(cs) ELSE cs

\* the calls cs of a worker configuration for alias a follow the order, and
\* a failed call is the last one and has raised
WorkerOrderOk(a, cs, pc) ==
    LET body == AfterRemoval(cs)
    IN  /\ (cs # << >> /\ IsRemoval(cs[1])) => cs[1].on = a
        /\ IsPrefix(Targets(body), ExpectedWorkerCalls(a))
        /\ \A i \in 1 .. Len(body) :
             ~body[i].ok => (i = Len(body) /\ pc = "raised")
        /\ pc = "returned" => Len(body) = 6
        /\ pc = "raised" => (body # << >> /\ ~body[Len(body)].ok)

\* C12: every worker configuration (pool job or add call) issues its calls
\* in the order removal, index refresh, install, create node on the
\* controller, service stop, server_name write, service start; a failed
\* call ends it; and on a cluster set up by run a worker's service runs
\* only when its server_name holds the controller's alias.
C12_WorkerStepOrder ==
    /\ \A t \in Threads :
         nc[t].pc # "idle" => WorkerOrderOk(nc[t].node, nc[t].cmds, nc[t].pc)
    /\ \A i \in 1 .. Len(memHist) :
         memHist[i].op = "add" =>
           WorkerOrderOk(memHist[i].alias, memHist[i].cmds, memHist[i].status)
    /\ \A a \in Aliases : momsvc[a] = "running" => serverfile[a] = master

C12_Witness ==
    \E j, i \in JobIds :
      /\ nc[j].pc = "returned"
      /\ Len(nc[j].cmds) = 7
      /\ FailedAtRegistration(i)
      /\ momsvc[nc[i].node] = "unknown"
      /\ serverfile[nc[i].node] = "none"

RunEnded == session = "run" /\ rpc \in {"done", "raised"}

\* C13 as stated: whenever a run has ended, pool.shutdown() has been called
\* exactly once (the pool is released).
C13_ShutdownOnceWheneverRunEnds ==
    RunEnded => shutdowns = 1

\* C13 amended: shutdown is called at most once, exactly once in a run that
\* reaches Done and then only after wait has returned with every job
\* completed; no job is submitted after it; a run that ends by raising never
\* calls it.
C13_ShutdownOnceAfterWait ==
    /\ [](session = "run" =>
            /\ shutdowns <= 1
            /\ (shutdowns = 1) <=> (rpc = "done")
            /\ shutdowns = 1 =>
                 /\ completed = wait_count
                 /\ wait_count = Len(jobs)
                 /\ AllJobsCompleted
            /\ rpc = "raised" => shutdowns = 0)
    /\ [][shutdowns >= 1 => jobs' = jobs]_vars

C13_Witness ==
    /\ rpc = "done"
    /\ shutdowns = 1
    /\ Len(jobs) = 2
    /\ nodes = << "node001", "node002" >>

\* every remote command of the run succeeded
AllCommandsOk ==
    AllOk(mc.cmds) /\ \A j \in 1 .. Len(jobs) : AllOk(nc[j].cmds)
\* successful create node calls for alias a issued by the pool jobs
CreatesFor(a) ==
    { << j, i >> \in JobIds \X (1 .. 7) :
        /\ i <= Len(nc[j].cmds)
        /\ nc[j].cmds[i].ok
        /\ nc[j].cmds[i].on = master
        /\ nc[j].cmds[i].cmd = [name |-> "qmgr -c create node", arg |-> a] }

\* C14: when a run in which every remote command succeeded is Done, the
\* cluster is the same whatever the interleaving of the jobs: exactly the
\* workers of the worker set are registered, each by exactly one create
\* node, each with server_name holding the controller's alias and its
\* service running; no other machine's service was touched.
C14_ResultIndependentOfInterleaving ==
    (session = "run" /\ rpc = "done" /\ AllCommandsOk) =>
      /\ registered = ExpectedWorkers
      /\ \A a \in Aliases :
           Cardinality(CreatesFor(a)) = IF a \in ExpectedWorkers THEN 1 ELSE 0
      /\ momsvc = [a \in Aliases |->
                     IF a \in ExpectedWorkers THEN "running" ELSE "unknown"]
      /\ serverfile = [a \in Aliases |->
                     IF a \in ExpectedWorkers \cup {"master"} THEN "master" ELSE "none"]

C14_Witness ==
    /\ session = "run"
    /\ rpc = "done"
    /\ AllCommandsOk
    /\ registered = {"node001", "node002"}
    /\ momsvc["node001"] = "running" /\ momsvc["node002"] = "running"

StartedJobs == { j \in JobIds : nc[j].pc # "idle" }
IsCreate(c) == c.cmd.name = "qmgr -c create node"

\* C15 as stated: a worker job issues commands only on its own worker
\* machine, never through a handle other jobs use.
C15_JobsUseOnlyOwnMachine ==
    \A j \in StartedJobs :
      \A i \in 1 .. Len(nc[j].cmds) : nc[j].cmds[i].on = nc[j].node

\* C15 amended: distinct jobs configure distinct workers; a job issues its
\* commands on its own worker, except its one create node, which it issues
\* through the controller's handle, shared by all jobs; a step of a job
\* changes no other worker's service or server_name and registers at most
\* its own alias.
C15_JobsShareOnlyControllerHandle ==
    /\ [](\A j \in StartedJobs :
            /\ \A i \in StartedJobs : i # j => nc[i].node # nc[j].node
            /\ \A i \in 1 .. Len(nc[j].cmds) :
                 IF IsCreate(nc[j].cmds[i])
                 THEN /\ nc[j].cmds[i].on = master
                      /\ nc[j].cmds[i].cmd.arg = nc[j].node
                 ELSE nc[j].cmds[i].on = nc[j].node
            /\ Cardinality({ i \in 1 .. Len(nc[j].cmds) : nc[j].cmds[i].on = master })
                 <= 1)
    /\ [][\A j \in StartedJobs :
            nc'[j] # nc[j] =>
              /\ \A a \in Aliases \ {nc[j].node} :
                   momsvc'[a] = momsvc[a] /\ serverfile'[a] = serverfile[a]
              /\ registered' \in {registered, registered \cup {nc[j].node}}]_vars

C15_Witness ==
    \E j, i \in JobIds :
      /\ i # j
      /\ i <= Len(jobs) /\ j <= Len(jobs)
      /\ jobs[i].st = "running" /\ jobs[j].st = "running"
      /\ \E n \in 1 .. Len(nc[i].cmds) : nc[i].cmds[n].on = master
      /\ \E n \in 1 .. Len(nc[j].cmds) : nc[j].cmds[n].on = master

\* a log entry written after the last call of the frame and naming its node
ReportsFailure(h) ==
    \E i \in 1 .. Len(h.log) : h.log[i].at = Len(h.cmds) /\ h.log[i].arg = h.node

\* C16: whenever a sub-step of a worker's configuration fails, the log holds
\* an entry naming that worker's alias, written after the failing call and
\* before the job ends.
C16_FailureLoggedWithAlias ==
    \A t \in Threads : nc[t].pc = "raised" => ReportsFailure(nc[t])

\* the pairs (machine, command) attempted in a sequence of calls
Attempted(cs) == { << cs[i].on, cs[i].cmd >> : i \in 1 .. Len(cs) }
NoRepeat(cs) == Cardinality(Attempted(cs)) = Len(cs)
\* a failed call ends its sequence, unless it is the tolerated removal
FailureEnds(cs) ==
    \A i \in 1 .. Len(cs) : (~cs[i].ok /\ ~IsRemoval(cs[i])) => i = Len(cs)

\* C17: nothing is retried: within one run, on_add_node or on_remove_node,
\* each command is attempted at most once per machine, failed or not, and a
\* failed command that raises is the last one of its sequence.
C17_NoRetry ==
    /\ mcalls <= 1
    /\ NoRepeat(mc.cmds) /\ FailureEnds(mc.cmds)
    /\ \A t \in Threads : NoRepeat(nc[t].cmds) /\ FailureEnds(nc[t].cmds)
    /\ \A i, j \in JobIds :
         i # j => Attempted(nc[i].cmds) \cap Attempted(nc[j].cmds) = {}
    /\ \A j \in JobIds : Attempted(nc[j].cmds) \cap Attempted(mc.cmds) = {}
    /\ \A n \in 1 .. Len(memHist) :
         NoRepeat(memHist[n].cmds) /\ FailureEnds(memHist[n].cmds)

C17_Witness ==
    /\ rpc = "done"
    /\ \E i, j \in JobIds :
         /\ i # j
         /\ nc[i].pc = "raised" /\ nc[j].pc = "raised"
         /\ Len(nc[i].cmds) >= 3 /\ ~LastCall(nc[i].cmds).ok
         /\ Len(nc[j].cmds) >= 3 /\ ~LastCall(nc[j].cmds).ok

\* calls n and n + 1 of the history apply the Node Configurator to one
\* alias, and the first of them returned
AppliedTwice(n) ==
    /\ memHist[n].op = "add" /\ memHist[n].status = "returned"
    /\ memHist[n + 1].op = "add" /\ memHist[n + 1].alias = memHist[n].alias
\* worker a is in the state one successful application leaves
ConfiguredOnce(a) ==
    a \in registered /\ momsvc[a] = "running" /\ serverfile[a] = master

\* C18: the Node Configurator is idempotent: a second application to an
\* already configured worker returns and leaves the cluster as one
\* application leaves it, the alias registered once.
C18_NodeConfiguratorIdempotent ==
    \A n \in 1 .. Len(memHist) - 1 :
      AppliedTwice(n) =>
        /\ memHist[n + 1].status = "returned"
        /\ (memOp.op = "none" /\ n + 1 = Len(memHist)) =>
             ConfiguredOnce(memHist[n].alias)

\* the step is the call of pool.wait returning
WaitStep == rpc = "loop" /\ rpc' = "shutdown"

\* C19: the count run hands to wait equals the number of jobs it submitted;
\* with no worker in the topology (only the controller, flag false) run
\* submits nothing, waits for zero completions, which cannot block, and
\* reaches Done.
C19_WaitCountIsJobsSubmitted ==
    /\ [](session = "run" => wait_count = Len(jobs))
    /\ [][WaitStep => wait_count = Len(jobs) /\ Len(jobs) = Len(compute_nodes)]_vars
    /\ []((rpc \in {"loop", "shutdown", "done"} /\ compute_nodes = << >>) =>
            /\ jobs = << >> /\ wait_count = 0 /\ completed = 0
            /\ rpc = "loop" => (ENABLED RunWait /\ ~ENABLED RunSubmit))

C19_Witness ==
    /\ rpc = "done"
    /\ nodes = << master >> /\ ~compute_on_master
    /\ jobs = << >> /\ wait_count = 0

\* C20: under fair scheduling of run and of the pool's threads, with every
\* remote command returning, every run ends, either in Done or in the
\* terminal failure of a controller step.
C20_RunEndsDoneOrControllerFailure ==
    <>(rpc = "done" \/ (rpc = "raised" /\ ControllerStepFailed))

====
